---- MODULE Spec2Model ----
(***************************************************************************)
(* Model of the software rendering pipeline of LAB4-GPC:                   *)
(*   src/src/main.rs     the frame loop (main) and the pipeline (render)   *)
(*   src/src/shaders.rs  vertex_shader, fragment_shader and the two gas    *)
(*                       giant shaders                                     *)
(* The framebuffer, the rasterizer (triangle) and the Fragment/Vertex      *)
(* records live in modules that are not part of the sources at hand; they  *)
(* are modelled from the specification (section 3 and 4.4).                *)
(***************************************************************************)
EXTENDS Integers, Sequences, FiniteSets, TLC

VARIABLES
    pc,              \* position of main: "top","clear","planet","moon_check","moon","present","done","panicked"
    current_shader,  \* main.rs:201  the shader selector
    time,            \* main.rs:202  the u32 frame counter, as <<high half, low half>>
    framebuffer,     \* main.rs:170  [buffer, zbuffer, current_color]
    uniforms,        \* main.rs:244  Uniforms of the planet draw (None outside a frame)
    moon_uniforms,   \* main.rs:269  Uniforms of the moon draw (None when not built)
    render_shader,   \* render's parameter current_shader (None outside render)
    fragsLeft,       \* fragments of the running render not yet processed
    emitted,         \* fragments rasterized so far in this loop iteration
    fragment,        \* the loop variable of main.rs:150 after its iteration (None outside)
    log,             \* the framebuffer operations of the running loop iteration
    frames,          \* loop iterations started
    keys_down,       \* main.rs:209-229  the number keys the polling of this iteration found down
    zmin,            \* per pixel: least depth passed to point() this frame
    cmin,            \* per pixel: colour of the first write that reached zmin
    vertex_array,          \* render's parameter vertex_array (geometry specification)
    transformed_vertices,  \* main.rs:125
    triangles,             \* main.rs:132
    gpc,                   \* position of render's front half: "vs","assembly","done","panicked"
    asm_i,                 \* main.rs:133  the loop variable i of primitive assembly
    band_in,               \* <<band_sine, band_variation>> in units of 1/Resolution
    band_out               \* result of the band computation of a gas giant shader

vars == <<pc, current_shader, time, framebuffer, uniforms, moon_uniforms,
          render_shader, fragsLeft, emitted, fragment, log, frames, keys_down,
          zmin, cmin, vertex_array, transformed_vertices, triangles, gpc, asm_i, band_in, band_out>>

loopVars == <<pc, current_shader, time, framebuffer, uniforms, moon_uniforms,
              render_shader, fragsLeft, emitted, fragment, log, frames, keys_down,
              zmin, cmin>>
geomVars == <<vertex_array, transformed_vertices, triangles, gpc, asm_i>>
bandVars == <<band_in, band_out>>

\* the absent value of a record, of a shader variant and of a colour
None == [none |-> TRUE]
NoShader == "none"
NoColor == <<>>

(***************************************************************************)
(* Bounds of the model                                                     *)
(***************************************************************************)
\* the framebuffer is Width x Height, a landscape strip
Width == 2
Height == Width \div 2
\* depths a fragment may carry
MaxDepth == 2
\* fragments the rasterizer emits in one loop iteration, all draws together
MaxFragments == 2
\* loop iterations
MaxFrames == 2
\* number keys held down at once
MaxKeysHeld == 2
\* vertices of a mesh handed to render
MaxVertices == 7
\* steps per unit of the sines fed to the band computation
Resolution == 10

(***************************************************************************)
(* Framebuffer (modelled from the specification, sections 3 and 4.4)       *)
(***************************************************************************)
Pixels == (0 .. Width - 1) \X (0 .. Height - 1)
Depths == 1 .. MaxDepth
\* the "infinitely far" depth of a cleared cell
Infinity == MaxDepth + 1
\* main.rs:182  set_background_color(0x333355)
BackgroundColor == <<"0x333355">>
\* main.rs:253  set_current_color(0xFFDDDD)
InitialColor == <<"0xFFDDDD">>

FramebufferNew ==
    [buffer |-> [p \in Pixels |-> BackgroundColor],
     zbuffer |-> [p \in Pixels |-> Infinity],
     current_color |-> <<"0x000000">>]

FbClear(fb) ==
    [fb EXCEPT !.buffer = [p \in Pixels |-> BackgroundColor],
               !.zbuffer = [p \in Pixels |-> Infinity]]

FbSetCurrentColor(fb, color) == [fb EXCEPT !.current_color = color]

FbPoint(fb, x, y, depth) ==
    IF x < Width /\ y < Height /\ depth < fb.zbuffer[<<x, y>>]
    THEN [fb EXCEPT !.buffer[<<x, y>>] = fb.current_color,
                    !.zbuffer[<<x, y>>] = depth]
    ELSE fb

(***************************************************************************)
(* The frame counter: a u32 kept as two 16 bit halves                      *)
(***************************************************************************)
Half == 65536
TimeZero == <<0, 0>>
TimeMax == <<Half - 1, Half - 1>>
TimeLess(a, b) == a[1] < b[1] \/ (a[1] = b[1] /\ a[2] < b[2])
\* time += 1 where it does not overflow
TimeSucc(t) == IF t[2] < Half - 1 THEN <<t[1], t[2] + 1>> ELSE <<t[1] + 1, 0>>

(***************************************************************************)
(* Shader selection (main.rs:201-229)                                      *)
(***************************************************************************)
ShaderTypes == {"RockyPlanet", "RockyPlanetVariant", "GasGiant", "ColdGasGiant",
                "Solar", "AlienPlanet", "GlacialTextured", "Moon"}
NumberKeys == 1 .. 7

\* the variant each number key selects (main.rs:209-229)
KeyVariant ==
    <<"GasGiant", "ColdGasGiant", "Solar", "RockyPlanet", "RockyPlanetVariant",
      "AlienPlanet", "GlacialTextured">>

\* the key tests as an if / else-if chain: the first held key decides
SelectShaderElseIf(cur, keys) ==
    IF 1 \in keys THEN "GasGiant"
    ELSE IF 2 \in keys THEN "ColdGasGiant"
    ELSE IF 3 \in keys THEN "Solar"
    ELSE IF 4 \in keys THEN "RockyPlanet"
    ELSE IF 5 \in keys THEN "RockyPlanetVariant"
    ELSE IF 6 \in keys THEN "AlienPlanet"
    ELSE IF 7 \in keys THEN "GlacialTextured"
    ELSE cur

\* the seven consecutive `if window.is_key_down(KeyN)` of main.rs:209-229
SelectShader(cur, keys) ==
    LET s1 == IF 1 \in keys THEN "GasGiant" ELSE cur
        s2 == IF 2 \in keys THEN "ColdGasGiant" ELSE s1
        s3 == IF 3 \in keys THEN "Solar" ELSE s2
        s4 == IF 4 \in keys THEN "RockyPlanet" ELSE s3
        s5 == IF 5 \in keys THEN "RockyPlanetVariant" ELSE s4
        s6 == IF 6 \in keys THEN "AlienPlanet" ELSE s5
        s7 == IF 7 \in keys THEN "GlacialTextured" ELSE s6
    IN  s7

(***************************************************************************)
(* Fragment shading (shaders.rs:41-44, 46-157, 159-263).  A colour is      *)
(* kept as the function that computed it and the outcome of its            *)
(* rng.gen_bool(0.5) saturation boost.                                     *)
(***************************************************************************)
gas_giant_shader(frag, u, boost) == [fn |-> "gas_giant_shader", boost |-> boost]

cold_gas_giant_shader(frag, u, boost) == [fn |-> "cold_gas_giant_shader", boost |-> boost]

\* shaders.rs:41-44: the variant is not looked at
fragment_shader(frag, u, shader, boost) == cold_gas_giant_shader(frag, u, boost)

\* Color::to_hex: the packed 0xRRGGBB value of a colour
ToHex(color) == <<"0x", color.fn, color.boost>>

(***************************************************************************)
(* render, fragment processing (main.rs:149-160)                           *)
(***************************************************************************)
\* `v as usize` of an f32: negative values saturate to 0
AsUsize(v) == IF v < 0 THEN 0 ELSE v

ProcessFragmentStale(fb, frag, u, shader, boost) ==
    LET x == AsUsize(frag.position[1])
        y == AsUsize(frag.position[2])
    IN  IF x < Width /\ y < Height
        THEN LET color == ToHex(fragment_shader(frag, u, shader, boost))
             IN  [fb |-> FbSetCurrentColor(FbPoint(fb, x, y, frag.depth), color),
                  shaded |-> TRUE, x |-> x, y |-> y, color |-> color]
        ELSE [fb |-> fb, shaded |-> FALSE, x |-> x, y |-> y, color |-> NoColor]

ProcessFragment(fb, frag, u, shader, boost) ==
    LET x == AsUsize(frag.position[1])
        y == AsUsize(frag.position[2])
    IN  IF x < Width /\ y < Height
        THEN LET color == ToHex(fragment_shader(frag, u, shader, boost))
             IN  [fb |-> FbPoint(FbSetCurrentColor(fb, color), x, y, frag.depth),
                  shaded |-> TRUE, x |-> x, y |-> y, color |-> color]
        ELSE [fb |-> fb, shaded |-> FALSE, x |-> x, y |-> y, color |-> NoColor]

\* the fragments the rasterizer may emit: whole-valued screen positions in and
\* around the framebuffer rectangle
FragmentInputs ==
    [position : (-1 .. Width) \X (-1 .. Height), depth : Depths]

(***************************************************************************)
(* The frame loop (main.rs:163-292)                                        *)
(***************************************************************************)
PlanetUniforms ==
    [model_matrix |-> "planet_model", view_matrix |-> "view",
     projection_matrix |-> "projection", viewport_matrix |-> "viewport",
     time |-> time, noise |-> 1337]

MoonUniformsOwnTime ==
    [model_matrix |-> <<"moon_model", uniforms.time>>,
     view_matrix |-> uniforms.view_matrix,
     projection_matrix |-> uniforms.projection_matrix,
     viewport_matrix |-> uniforms.viewport_matrix,
     time |-> TimeSucc(uniforms.time), noise |-> 1337]

MoonUniforms ==
    [model_matrix |-> <<"moon_model", uniforms.time>>,
     view_matrix |-> uniforms.view_matrix,
     projection_matrix |-> uniforms.projection_matrix,
     viewport_matrix |-> uniforms.viewport_matrix,
     time |-> uniforms.time, noise |-> 1337]

Init ==
    /\ pc = "top"
    /\ current_shader = "RockyPlanet"
    /\ time = TimeZero
    /\ framebuffer = FramebufferNew
    /\ uniforms = None
    /\ moon_uniforms = None
    /\ render_shader = NoShader
    /\ fragsLeft = 0
    /\ emitted = 0
    /\ fragment = None
    /\ log = <<>>
    /\ frames = 0
    /\ keys_down = {}
    /\ zmin = [p \in Pixels |-> Infinity]
    /\ cmin = [p \in Pixels |-> BackgroundColor]
    /\ vertex_array = <<>>
    /\ transformed_vertices = <<>>
    /\ triangles = <<>>
    /\ gpc = "done"
    /\ asm_i = 0
    /\ band_in = None
    /\ band_out = None

\* main.rs:204-207: the window was closed or Escape is down
ExitLoop ==
    /\ pc = "top"
    /\ \E closed \in BOOLEAN, escape \in BOOLEAN :
          /\ closed \/ escape
          /\ pc' = "done"
    /\ UNCHANGED <<current_shader, time, framebuffer, uniforms, moon_uniforms,
                   render_shader, fragsLeft, emitted, fragment, log, frames, zmin, cmin>>
    /\ UNCHANGED <<keys_down, geomVars, bandVars>>

\* the sets of number keys that may be down together
KeySets == {ks \in SUBSET NumberKeys : Cardinality(ks) <= MaxKeysHeld}

\* main.rs:209-233: key polling, time += 1, handle_input (the camera is not modelled)
PollKeys ==
    /\ pc = "top"
    /\ frames < MaxFrames
    /\ \E keys \in KeySets :
          /\ keys_down' = keys
          /\ current_shader' = SelectShader(current_shader, keys)
    /\ IF time = TimeMax
       THEN \* u32 overflow: a panic where overflow checks are on, a wrap where not
            \E checked \in BOOLEAN :
               IF checked
               THEN pc' = "panicked" /\ time' = time
               ELSE pc' = "clear" /\ time' = TimeZero
       ELSE pc' = "clear" /\ time' = TimeSucc(time)
    /\ frames' = frames + 1
    /\ log' = <<>>
    /\ emitted' = 0
    /\ uniforms' = None
    /\ moon_uniforms' = None
    /\ UNCHANGED <<framebuffer, render_shader, fragsLeft, fragment, zmin, cmin>>
    /\ UNCHANGED <<geomVars, bandVars>>

\* main.rs:235-251: framebuffer.clear() and the Uniforms of the frame
ClearFrame ==
    /\ pc = "clear"
    /\ framebuffer' = FbClear(framebuffer)
    /\ zmin' = [p \in Pixels |-> Infinity]
    /\ cmin' = [p \in Pixels |-> BackgroundColor]
    /\ uniforms' = PlanetUniforms
    /\ log' = Append(log, "clear")
    /\ keys_down' = {}   \* the polling of this iteration is over
    /\ pc' = "planet"
    /\ UNCHANGED <<current_shader, time, moon_uniforms, render_shader,
                   fragsLeft, emitted, fragment, frames>>
    /\ UNCHANGED <<geomVars, bandVars>>

\* main.rs:253-254 and 124-147: the planet draw up to rasterization
RenderPlanet ==
    /\ pc = "planet"
    /\ render_shader = NoShader
    /\ framebuffer' = FbSetCurrentColor(framebuffer, InitialColor)
    /\ render_shader' = current_shader
    /\ \E n \in 0 .. (MaxFragments - emitted) :
          fragsLeft' = n /\ emitted' = emitted + n
    /\ log' = Append(log, "render_planet")
    /\ UNCHANGED <<pc, current_shader, time, uniforms, moon_uniforms,
                   fragment, frames, zmin, cmin>>
    /\ UNCHANGED <<keys_down, geomVars, bandVars>>

\* the outcomes of rng.gen_bool(0.5) (shaders.rs:190) for a fragment: the generator
\* is only drawn from when the fragment is shaded
RngOutcomes(frag) ==
    IF AsUsize(frag.position[1]) < Width /\ AsUsize(frag.position[2]) < Height
    THEN BOOLEAN ELSE {FALSE}

\* main.rs:150-160: one iteration of the fragment loop
FragmentStep ==
    /\ render_shader # NoShader
    /\ fragsLeft > 0
    /\ \E frag \in FragmentInputs :
       \E boost \in RngOutcomes(frag) :
          LET u == IF pc = "planet" THEN uniforms ELSE moon_uniforms
              r == ProcessFragment(framebuffer, frag, u, render_shader, boost)
              p == <<r.x, r.y>>
          IN  /\ framebuffer' = r.fb
              /\ fragment' = [position |-> frag.position, depth |-> frag.depth,
                               shaded |-> r.shaded, x |-> r.x, y |-> r.y,
                               color |-> r.color]
              /\ IF r.shaded /\ frag.depth < zmin[p]
                 THEN /\ zmin' = [zmin EXCEPT ![p] = frag.depth]
                      /\ cmin' = [cmin EXCEPT ![p] = r.color]
                 ELSE UNCHANGED <<zmin, cmin>>
    /\ fragsLeft' = fragsLeft - 1
    /\ UNCHANGED <<pc, current_shader, time, uniforms, moon_uniforms,
                   render_shader, emitted, log, frames>>
    /\ UNCHANGED <<keys_down, geomVars, bandVars>>

\* main.rs:161: render returns
RenderReturn ==
    /\ render_shader # NoShader
    /\ fragsLeft = 0
    /\ render_shader' = NoShader
    /\ fragment' = None
    /\ pc' = IF pc = "planet" THEN "moon_check" ELSE "present"
    /\ UNCHANGED <<current_shader, time, framebuffer, uniforms, moon_uniforms,
                   fragsLeft, emitted, log, frames, zmin, cmin>>
    /\ UNCHANGED <<keys_down, geomVars, bandVars>>

RenderMoonPresentedFirst ==
    /\ pc = "moon_check"
    /\ current_shader = "RockyPlanet"
    /\ moon_uniforms' = MoonUniforms
    /\ render_shader' = "Moon"
    /\ \E n \in 0 .. (MaxFragments - emitted) :
          fragsLeft' = n /\ emitted' = emitted + n
    /\ log' = log \o <<"present", "render_moon">>
    /\ pc' = "moon"
    /\ UNCHANGED <<current_shader, time, framebuffer, uniforms, fragment,
                   frames, zmin, cmin>>
    /\ UNCHANGED <<keys_down, geomVars, bandVars>>

RenderMoonCleared ==
    /\ pc = "moon_check"
    /\ current_shader = "RockyPlanet"
    /\ framebuffer' = FbClear(framebuffer)
    /\ zmin' = [p \in Pixels |-> Infinity]
    /\ cmin' = [p \in Pixels |-> BackgroundColor]
    /\ moon_uniforms' = MoonUniforms
    /\ render_shader' = "Moon"
    /\ \E n \in 0 .. (MaxFragments - emitted) :
          fragsLeft' = n /\ emitted' = emitted + n
    /\ log' = log \o <<"clear", "render_moon">>
    /\ pc' = "moon"
    /\ UNCHANGED <<current_shader, time, uniforms, fragment, frames>>
    /\ UNCHANGED <<keys_down, geomVars, bandVars>>

\* main.rs:256-284: the moon is drawn when the selector is RockyPlanet
RenderMoon ==
    /\ pc = "moon_check"
    /\ current_shader = "RockyPlanet"
    /\ moon_uniforms' = MoonUniforms
    /\ render_shader' = "Moon"
    /\ \E n \in 0 .. (MaxFragments - emitted) :
          fragsLeft' = n /\ emitted' = emitted + n
    /\ log' = Append(log, "render_moon")
    /\ pc' = "moon"
    /\ UNCHANGED <<current_shader, time, framebuffer, uniforms, fragment,
                   frames, zmin, cmin>>
    /\ UNCHANGED <<keys_down, geomVars, bandVars>>

\* main.rs:256: any other selector skips the moon
SkipMoon ==
    /\ pc = "moon_check"
    /\ current_shader # "RockyPlanet"
    /\ pc' = "present"
    /\ UNCHANGED <<current_shader, time, framebuffer, uniforms, moon_uniforms,
                   render_shader, fragsLeft, emitted, fragment, log, frames, zmin, cmin>>
    /\ UNCHANGED <<keys_down, geomVars, bandVars>>

\* main.rs:286-290: update_with_buffer and the frame delay
Present ==
    /\ pc = "present"
    /\ log' = Append(log, "present")
    /\ pc' = "top"
    /\ UNCHANGED <<current_shader, time, framebuffer, uniforms, moon_uniforms,
                   render_shader, fragsLeft, emitted, fragment, frames, zmin, cmin>>
    /\ UNCHANGED <<keys_down, geomVars, bandVars>>

Next ==
    \/ ExitLoop
    \/ PollKeys
    \/ ClearFrame
    \/ RenderPlanet
    \/ FragmentStep
    \/ RenderReturn
    \/ RenderMoon
    \/ SkipMoon
    \/ Present

Spec == Init /\ [][Next]_vars

(***************************************************************************)
(* Arithmetic of the shaders.  An f32 is kept as an exact fraction <<n, d>> *)
(* in lowest terms with d >= 0; d = 0 is a non-finite value (<<1,0>> +inf, *)
(* <<-1,0>> -inf, <<0,0>> NaN).                                            *)
(***************************************************************************)
RECURSIVE GCD(_, _)
GCD(a, b) == IF b = 0 THEN a ELSE GCD(b, a % b)
Abs(a) == IF a < 0 THEN -a ELSE a
Sign(a) == IF a < 0 THEN -1 ELSE IF a = 0 THEN 0 ELSE 1

\* the fraction n/d
Frac(n, d) ==
    IF d = 0 THEN <<Sign(n), 0>>
    ELSE LET g == GCD(Abs(n), Abs(d))
         IN  <<(Sign(d) * n) \div g, Abs(d) \div g>>
FInt(i) == <<i, 1>>
FMul(a, b) == Frac(a[1] * b[1], a[2] * b[2])
FAdd(a, b) ==
    IF a[2] = 0 /\ b[2] = 0
    THEN (IF a[1] = b[1] THEN a ELSE <<0, 0>>)
    ELSE Frac(a[1] * b[2] + b[1] * a[2], a[2] * b[2])
FVec(v) == [i \in DOMAIN v |-> FInt(v[i])]

(***************************************************************************)
(* Matrices (nalgebra_glm Mat4, Mat3) as tuples of rows                    *)
(***************************************************************************)
MatMul4(A, B) ==
    [i \in 1 .. 4 |-> [j \in 1 .. 4 |->
        A[i][1] * B[1][j] + A[i][2] * B[2][j] + A[i][3] * B[3][j] + A[i][4] * B[4][j]]]
MatVec4(A, v) ==
    [i \in 1 .. 4 |-> A[i][1] * v[1] + A[i][2] * v[2] + A[i][3] * v[3] + A[i][4] * v[4]]
\* an integer matrix applied to a vector of fractions
MatFVec4(A, v) ==
    [i \in 1 .. 4 |->
        FAdd(FAdd(FMul(FInt(A[i][1]), v[1]), FMul(FInt(A[i][2]), v[2])),
             FAdd(FMul(FInt(A[i][3]), v[3]), FMul(FInt(A[i][4]), v[4])))]
\* a matrix of fractions applied to an integer vector
FMatVec3(A, v) ==
    [i \in 1 .. 3 |->
        FAdd(FAdd(FMul(A[i][1], FInt(v[1])), FMul(A[i][2], FInt(v[2]))),
             FMul(A[i][3], FInt(v[3])))]
\* mat4_to_mat3: the upper-left 3x3
Mat4ToMat3(A) == [i \in 1 .. 3 |-> [j \in 1 .. 3 |-> A[i][j]]]
Transpose3(A) == [i \in 1 .. 3 |-> [j \in 1 .. 3 |-> A[j][i]]]
Det3(A) ==
      A[1][1] * (A[2][2] * A[3][3] - A[2][3] * A[3][2])
    - A[1][2] * (A[2][1] * A[3][3] - A[2][3] * A[3][1])
    + A[1][3] * (A[2][1] * A[3][2] - A[2][2] * A[3][1])
\* the cofactor of A at (i, j)
Cofactor3(A, i, j) ==
    LET r1 == (i % 3) + 1
        r2 == ((i + 1) % 3) + 1
        c1 == (j % 3) + 1
        c2 == ((j + 1) % 3) + 1
    IN  A[r1][c1] * A[r2][c2] - A[r1][c2] * A[r2][c1]
Identity3 == [i \in 1 .. 3 |-> [j \in 1 .. 3 |-> IF i = j THEN FInt(1) ELSE FInt(0)]]
Zero3 == [i \in 1 .. 3 |-> [j \in 1 .. 3 |-> FInt(0)]]
\* Matrix::try_inverse: None (here the empty tuple) when the determinant is zero
TryInverse3(A) ==
    IF Det3(A) = 0 THEN <<>>
    ELSE [i \in 1 .. 3 |-> [j \in 1 .. 3 |-> Frac(Cofactor3(A, j, i), Det3(A))]]

(***************************************************************************)
(* vertex_shader (shaders.rs:11-39)                                        *)
(***************************************************************************)
NormalMatrixZeroFallback(model_matrix) ==
    LET inv == TryInverse3(Transpose3(Mat4ToMat3(model_matrix)))
    IN  IF inv = <<>> THEN Zero3 ELSE inv

\* shaders.rs:23-27
NormalMatrix(model_matrix) ==
    LET inv == TryInverse3(Transpose3(Mat4ToMat3(model_matrix)))
    IN  IF inv = <<>> THEN Identity3 ELSE inv

vertex_shader(vertex, u) ==
    LET position == <<vertex.position[1], vertex.position[2], vertex.position[3], 1>>
        transformed ==
            MatVec4(MatMul4(MatMul4(u.projection_matrix, u.view_matrix), u.model_matrix),
                    position)
        w == transformed[4]
        transformed_position ==
            <<Frac(transformed[1], w), Frac(transformed[2], w), Frac(transformed[3], w),
              FInt(1)>>
        screen_position == MatFVec4(u.viewport_matrix, transformed_position)
        transformed_normal == FMatVec3(NormalMatrix(u.model_matrix), vertex.normal)
    IN  [position |-> vertex.position,
         normal |-> vertex.normal,
         tex_coords |-> vertex.tex_coords,
         color |-> vertex.color,
         transformed_position |->
             <<screen_position[1], screen_position[2], screen_position[3]>>,
         transformed_normal |-> transformed_normal]

(***************************************************************************)
(* render, vertex stage and primitive assembly (main.rs:124-141)           *)
(***************************************************************************)
\* the panic of an index past the end of a Vec
OutOfRange == [panic |-> "index out of bounds"]
\* v[i], zero based and bounds checked
Index(v, i) == IF i < Len(v) THEN v[i + 1] ELSE OutOfRange

AssembleAtOffByOne(tv, i) ==
    IF i + 1 < Len(tv)
    THEN << <<Index(tv, i), Index(tv, i + 1), Index(tv, i + 2)>> >>
    ELSE <<>>

\* main.rs:134-140: the triangles pushed by the iteration with loop variable i
AssembleAt(tv, i) ==
    IF i + 2 < Len(tv)
    THEN << <<Index(tv, i), Index(tv, i + 1), Index(tv, i + 2)>> >>
    ELSE <<>>

Identity4 == <<<<1, 0, 0, 0>>, <<0, 1, 0, 0>>, <<0, 0, 1, 0>>, <<0, 0, 0, 1>>>>
\* model matrices: identity, a scale by 2 with a translation, a quarter turn about
\* z, a sheared scale, and two singular ones (a zero scale on z, equal rows)
GeomModels ==
    { Identity4,
      <<<<2, 0, 0, 1>>, <<0, 2, 0, 0>>, <<0, 0, 2, -1>>, <<0, 0, 0, 1>>>>,
      <<<<0, -1, 0, 0>>, <<1, 0, 0, 0>>, <<0, 0, 1, 0>>, <<0, 0, 0, 1>>>>,
      <<<<1, 1, 0, 0>>, <<0, 2, 0, 0>>, <<0, 0, 3, 0>>, <<0, 0, 0, 1>>>>,
      <<<<1, 0, 0, 0>>, <<0, 1, 0, 0>>, <<0, 0, 0, 2>>, <<0, 0, 0, 1>>>>,
      <<<<1, 2, 0, 0>>, <<1, 2, 0, 0>>, <<0, 0, 1, 0>>, <<0, 0, 0, 1>>>> }
\* the camera at the origin with no projection, and five units back along z with
\* a projection that sets w to -z
GeomCameras ==
    { [view |-> Identity4, projection |-> Identity4],
      [view |-> <<<<1, 0, 0, 0>>, <<0, 1, 0, 0>>, <<0, 0, 1, -5>>, <<0, 0, 0, 1>>>>,
       projection |-> <<<<2, 0, 0, 0>>, <<0, 2, 0, 0>>, <<0, 0, -1, -1>>, <<0, 0, -1, 0>>>>] }
\* create_viewport_matrix(4, 2)
GeomViewport == <<<<2, 0, 0, 2>>, <<0, -1, 0, 1>>, <<0, 0, 1, 0>>, <<0, 0, 0, 1>>>>
GeomUniforms ==
    { [model_matrix |-> m, view_matrix |-> c.view, projection_matrix |-> c.projection,
       viewport_matrix |-> GeomViewport, time |-> <<0, 1>>, noise |-> 1337] :
      m \in GeomModels, c \in GeomCameras }
GeomVertices ==
    { [position |-> <<1, 0, 5>>, normal |-> <<0, 0, 1>>, tex_coords |-> <<0, 1>>,
       color |-> <<255, 0, 0>>, transformed_position |-> FVec(<<0, 0, 0>>),
       transformed_normal |-> FVec(<<0, 0, 1>>)],
      [position |-> <<0, 2, -1>>, normal |-> <<1, 2, 0>>, tex_coords |-> <<1, 0>>,
       color |-> <<0, 0, 255>>, transformed_position |-> FVec(<<0, 0, 0>>),
       transformed_normal |-> FVec(<<1, 2, 0>>)] }
RECURSIVE SeqsUpTo(_, _)
SeqsUpTo(S, n) ==
    IF n = 0 THEN {<<>>}
    ELSE LET shorter == SeqsUpTo(S, n - 1)
         IN  shorter \cup {Append(q, x) : q \in {r \in shorter : Len(r) = n - 1}, x \in S}

\* main.rs:126-129: one iteration of the vertex loop
VertexShaderStep ==
    /\ gpc = "vs"
    /\ Len(transformed_vertices) < Len(vertex_array)
    /\ transformed_vertices' =
          Append(transformed_vertices,
                 vertex_shader(vertex_array[Len(transformed_vertices) + 1], uniforms))
    /\ UNCHANGED <<vertex_array, triangles, gpc, asm_i>>
    /\ UNCHANGED <<loopVars, bandVars>>

\* main.rs:132-133: the vertex loop is over, assembly starts at i = 0
BeginAssembly ==
    /\ gpc = "vs"
    /\ Len(transformed_vertices) = Len(vertex_array)
    /\ triangles' = <<>>
    /\ asm_i' = 0
    /\ gpc' = "assembly"
    /\ UNCHANGED <<vertex_array, transformed_vertices>>
    /\ UNCHANGED <<loopVars, bandVars>>

\* main.rs:133-141: one iteration of (0..len).step_by(3)
AssemblyStep ==
    /\ gpc = "assembly"
    /\ asm_i < Len(transformed_vertices)
    /\ LET pushed == AssembleAt(transformed_vertices, asm_i)
       IN  IF pushed # <<>> /\ \E k \in 1 .. 3 : pushed[1][k] = OutOfRange
           THEN gpc' = "panicked" /\ UNCHANGED <<triangles, asm_i>>
           ELSE /\ triangles' = triangles \o pushed
                /\ asm_i' = asm_i + 3
                /\ gpc' = gpc
    /\ UNCHANGED <<vertex_array, transformed_vertices>>
    /\ UNCHANGED <<loopVars, bandVars>>

\* main.rs:141-143: the range is exhausted
EndAssembly ==
    /\ gpc = "assembly"
    /\ asm_i >= Len(transformed_vertices)
    /\ gpc' = "done"
    /\ UNCHANGED <<vertex_array, transformed_vertices, triangles, asm_i>>
    /\ UNCHANGED <<loopVars, bandVars>>

InitGeom ==
    /\ pc = "planet"
    /\ current_shader = "RockyPlanet"
    /\ time = <<0, 1>>
    /\ framebuffer = FbClear(FramebufferNew)
    /\ uniforms \in GeomUniforms
    /\ moon_uniforms = None
    /\ render_shader = "RockyPlanet"
    /\ fragsLeft = 0
    /\ emitted = 0
    /\ fragment = None
    /\ log = <<"clear", "render_planet">>
    /\ frames = 1
    /\ keys_down = {}
    /\ zmin = [p \in Pixels |-> Infinity]
    /\ cmin = [p \in Pixels |-> BackgroundColor]
    /\ vertex_array \in SeqsUpTo(GeomVertices, MaxVertices)
    /\ transformed_vertices = <<>>
    /\ triangles = <<>>
    /\ gpc = "vs"
    /\ asm_i = 0
    /\ band_in = None
    /\ band_out = None

NextGeom ==
    \/ VertexShaderStep
    \/ BeginAssembly
    \/ AssemblyStep
    \/ EndAssembly

SpecGeom == InitGeom /\ [][NextGeom]_vars

(***************************************************************************)
(* Properties of the vertex stage and of primitive assembly                *)
(***************************************************************************)
\* C4: a vertex array of length n yields floor(n/3) triangles, the i-th made of
\* the transformed vertices 3i, 3i+1, 3i+2 in that order; the 1 or 2 trailing
\* vertices are in no triangle and no index leaves the array.
C4_TrianglesByThrees ==
    /\ gpc # "panicked"
    /\ gpc = "done" =>
          /\ Len(transformed_vertices) = Len(vertex_array)
          /\ Len(triangles) = Len(vertex_array) \div 3
          /\ \A i \in 0 .. Len(triangles) - 1 :
                triangles[i + 1] = <<transformed_vertices[3 * i + 1],
                                     transformed_vertices[3 * i + 2],
                                     transformed_vertices[3 * i + 3]>>
    /\ gpc = "assembly" =>
          /\ asm_i % 3 = 0
          /\ Len(triangles) <= Len(vertex_array) \div 3

\* C4 witness: a mesh of 3k + 2 vertices, k >= 1, has been assembled
C4_Witness ==
    /\ gpc = "done"
    /\ Len(vertex_array) % 3 = 2 /\ Len(vertex_array) > 3
    /\ Len(triangles) = Len(vertex_array) \div 3
    /\ triangles[1][1] # triangles[1][3]

Singular(model_matrix) == Det3(Transpose3(Mat4ToMat3(model_matrix))) = 0

C9_Preserved ==
    \A j \in 1 .. Len(transformed_vertices) :
        /\ transformed_vertices[j].position = vertex_array[j].position
        /\ transformed_vertices[j].normal = vertex_array[j].normal
        /\ transformed_vertices[j].tex_coords = vertex_array[j].tex_coords
        /\ transformed_vertices[j].color = vertex_array[j].color
        /\ Singular(uniforms.model_matrix) =>
              transformed_vertices[j].transformed_normal = FVec(vertex_array[j].normal)
C9_InputsKept == vertex_array' = vertex_array /\ uniforms' = uniforms
\* C9: the vertex returned by vertex_shader has the position, normal, tex_coords
\* and color of its input; with a singular transposed 3x3 model block its
\* transformed_normal is the input normal; the vertex array and the Uniforms are
\* left as they were.
C9_VertexShaderPure == [](C9_Preserved) /\ [][C9_InputsKept]_vars

\* C9 witness: a vertex went through a singular model matrix and came out with a
\* new screen position and its own normal
C9_Witness ==
    /\ Len(transformed_vertices) >= 2
    /\ Singular(uniforms.model_matrix)
    /\ transformed_vertices[2].transformed_normal = FVec(<<1, 2, 0>>)
    /\ transformed_vertices[2].transformed_position # vertex_array[2].transformed_position


(***************************************************************************)
(* Band synthesis of the gas giant shaders (shaders.rs:67-87, 180-197).    *)
(* band_sine and band_variation are given in units of 1/Resolution.        *)
(***************************************************************************)
\* base_colors.len() (shaders.rs:47-53, 160-166)
PaletteSize == 5
\* the integer part of a finite fraction, toward zero
Trunc(f) == IF f[1] >= 0 THEN f[1] \div f[2] ELSE -((-f[1]) \div f[2])
\* f32::fract: the fractional part, with the sign of the value
Fract(f) == FAdd(f, FInt(-Trunc(f)))

\* shaders.rs:67-87
GasGiantBand(band_sine, band_variation) ==
    LET band_index_float ==
            FMul(FMul(Frac(band_sine + band_variation + Resolution, Resolution),
                      Frac(1, 2)),
                 FInt(PaletteSize))
        band_index == AsUsize(Trunc(band_index_float)) % PaletteSize
    IN  [shader |-> "gas_giant_shader",
         band_index_float |-> band_index_float,
         band_index |-> band_index,
         next_band_index |-> (band_index + 1) % PaletteSize,
         interpolation_factor |-> Fract(band_index_float)]

\* shaders.rs:180-197
ColdGasGiantBand(band_sine, band_variation) ==
    LET band_index_float ==
            FMul(FMul(Frac(band_sine + band_variation + Resolution, Resolution),
                      Frac(1, 2)),
                 FInt(PaletteSize))
        band_index == AsUsize(Trunc(band_index_float)) % PaletteSize
    IN  [shader |-> "cold_gas_giant_shader",
         band_index_float |-> band_index_float,
         band_index |-> band_index,
         next_band_index |-> (band_index + 1) % PaletteSize,
         interpolation_factor |-> Fract(band_index_float)]

\* sin(..) lies in [-1, 1] and sin(..) * 0.3 in [-0.3, 0.3]
BandInputs ==
    [band_sine : -Resolution .. Resolution,
     band_variation : -((3 * Resolution) \div 10) .. ((3 * Resolution) \div 10)]

\* gas_giant_shader computes its band
GasGiantShade ==
    /\ band_out = None
    /\ band_out' = GasGiantBand(band_in.band_sine, band_in.band_variation)
    /\ UNCHANGED band_in
    /\ UNCHANGED <<loopVars, geomVars>>

\* cold_gas_giant_shader computes its band
ColdGasGiantShade ==
    /\ band_out = None
    /\ band_out' = ColdGasGiantBand(band_in.band_sine, band_in.band_variation)
    /\ UNCHANGED band_in
    /\ UNCHANGED <<loopVars, geomVars>>

InitBand ==
    /\ pc = "planet"
    /\ current_shader = "GasGiant"
    /\ time = <<0, 1>>
    /\ framebuffer = FbSetCurrentColor(FbClear(FramebufferNew), InitialColor)
    /\ uniforms = PlanetUniforms
    /\ moon_uniforms = None
    /\ render_shader = "GasGiant"
    /\ fragsLeft = 1
    /\ emitted = 1
    /\ fragment = None
    /\ log = <<"clear", "render_planet">>
    /\ frames = 1
    /\ keys_down = {}
    /\ zmin = [p \in Pixels |-> Infinity]
    /\ cmin = [p \in Pixels |-> BackgroundColor]
    /\ vertex_array = <<>>
    /\ transformed_vertices = <<>>
    /\ triangles = <<>>
    /\ gpc = "done"
    /\ asm_i = 0
    /\ band_in \in BandInputs
    /\ band_out = None

NextBand ==
    \/ GasGiantShade
    \/ ColdGasGiantShade

SpecBand == InitBand /\ [][NextBand]_vars

\* C10 (as claimed): for band_sine in [-1,1] and band_variation in [-0.3,0.3] the
\* band index is the integer part of the remapped value and lies in
\* [0, PaletteSize), the next index is (index + 1) mod PaletteSize, and the
\* interpolation factor is the fractional part of the remapped value and lies in
\* [0, 1).
C10_BandInRange ==
    band_out # None =>
        /\ band_out.band_index = Trunc(band_out.band_index_float)
        /\ band_out.band_index \in 0 .. PaletteSize - 1
        /\ band_out.next_band_index = (band_out.band_index + 1) % PaletteSize
        /\ band_out.interpolation_factor = Fract(band_out.band_index_float)
        /\ band_out.interpolation_factor[1] >= 0
        /\ band_out.interpolation_factor[1] < band_out.interpolation_factor[2]


(***************************************************************************)
(* The state of the loop after 2^32 - 2 iterations, the last of which drew *)
(* the planet and the moon with every fragment off screen                  *)
(***************************************************************************)
InitLate ==
    /\ pc = "top"
    /\ current_shader = "RockyPlanet"
    /\ time = <<Half - 1, Half - 2>>
    /\ framebuffer = FbSetCurrentColor(FramebufferNew, InitialColor)
    /\ uniforms = PlanetUniforms
    /\ moon_uniforms = [PlanetUniforms EXCEPT !.model_matrix = <<"moon_model", time>>]
    /\ render_shader = NoShader
    /\ fragsLeft = 0
    /\ emitted = 0
    /\ fragment = None
    /\ log = <<"clear", "render_planet", "render_moon", "present">>
    /\ frames = 0
    /\ keys_down = {}
    /\ zmin = [p \in Pixels |-> Infinity]
    /\ cmin = [p \in Pixels |-> BackgroundColor]
    /\ vertex_array = <<>>
    /\ transformed_vertices = <<>>
    /\ triangles = <<>>
    /\ gpc = "done"
    /\ asm_i = 0
    /\ band_in = None
    /\ band_out = None

SpecLate == InitLate /\ [][Next]_vars

(***************************************************************************)
(* Properties of the frame loop and of fragment processing                 *)
(***************************************************************************)
LogSet == {log[i] : i \in 1 .. Len(log)}
Count(e) == Cardinality({i \in 1 .. Len(log) : log[i] = e})
Presented == log # <<>> /\ log[Len(log)] = "present"
InFrame == pc \in {"planet", "moon_check", "moon", "present"}
IsFragmentStep == fragsLeft' = fragsLeft - 1

\* the effect of one fragment step on every pixel
C1_DepthTestStep ==
    IsFragmentStep =>
        \A p \in Pixels :
            IF fragment'.shaded /\ p = <<fragment'.x, fragment'.y>>
                  /\ fragment'.depth < framebuffer.zbuffer[p]
            THEN /\ framebuffer'.zbuffer[p] = fragment'.depth
                 /\ framebuffer'.buffer[p] = fragment'.color
            ELSE /\ framebuffer'.zbuffer[p] = framebuffer.zbuffer[p]
                 /\ framebuffer'.buffer[p] = framebuffer.buffer[p]
\* the buffers against the least depth written per pixel and its colour
C1_NearestWins ==
    InFrame => framebuffer.zbuffer = zmin /\ framebuffer.buffer = cmin
\* C1: within a frame an in-bounds write changes its pixel exactly when its depth
\* is strictly less than the stored depth, and then sets both the colour and the
\* depth; every other pixel, and the pixel of a write that fails the test, keeps
\* colour and depth.  So each pixel holds the least depth written to it this
\* frame and the colour of the write that set that depth.
C1_DepthTest == [](C1_NearestWins) /\ [][C1_DepthTestStep]_vars

\* C1 witness: a write that failed the depth test left the colour and the nearer
\* depth of an earlier write in its pixel
C1_Witness ==
    /\ fragment # None /\ fragment.shaded
    /\ framebuffer.zbuffer[<<fragment.x, fragment.y>>] < fragment.depth
    /\ framebuffer.buffer[<<fragment.x, fragment.y>>] # fragment.color

\* C2: in an iteration that renders, clear() is the first framebuffer operation,
\* happens once, precedes every render() and point(), and is not repeated between
\* the planet draw and the moon draw.
C2_ClearOncePerFrame ==
    /\ log # <<>> => log[1] = "clear" /\ Count("clear") = 1
    /\ (InFrame \/ render_shader # NoShader \/ fragment # None) => log # <<>>
    /\ pc = "moon" => log = <<"clear", "render_planet", "render_moon">>

\* C2 witness: the moon draw writes a pixel the planet draw wrote in the same frame
C2_Witness ==
    /\ pc = "moon" /\ fragment # None /\ fragment.shaded
    /\ emitted = 2 /\ fragsLeft = 0
    /\ log = <<"clear", "render_planet", "render_moon">>
    /\ framebuffer.zbuffer[<<fragment.x, fragment.y>>] < fragment.depth

\* C3 (as claimed): a fragment whose screen position lies outside
\* [0,Width) x [0,Height), a negative coordinate included, is neither shaded nor
\* written.
C3_OutOfBoundsDiscarded ==
    (fragment # None /\ ~(fragment.position[1] \in 0 .. Width - 1
                          /\ fragment.position[2] \in 0 .. Height - 1))
        => ~fragment.shaded

\* the two colouring functions of shaders.rs
IsGasGiantFn(fn) == fn \in {"gas_giant_shader", "cold_gas_giant_shader"}

\* C5 (as claimed): the colouring function applied to a fragment is the one of the
\* variant render was given: gas_giant_shader for GasGiant, cold_gas_giant_shader
\* for ColdGasGiant, and neither of the two for any other variant.
C5_DispatchOnVariant ==
    (fragment # None /\ fragment.shaded) =>
        LET fn == fragment.color[2]
        IN  /\ render_shader = "GasGiant" => fn = "gas_giant_shader"
            /\ render_shader = "ColdGasGiant" => fn = "cold_gas_giant_shader"
            /\ render_shader \notin {"GasGiant", "ColdGasGiant"} => ~IsGasGiantFn(fn)

SameButModel(m, u) ==
    /\ m.view_matrix = u.view_matrix
    /\ m.projection_matrix = u.projection_matrix
    /\ m.viewport_matrix = u.viewport_matrix
    /\ m.time = u.time
    /\ m.noise = u.noise
    /\ m.model_matrix # u.model_matrix

\* C6 (as claimed): every presented frame drew the planet and then the moon.
C6_MoonEveryFrame ==
    Presented => log = <<"clear", "render_planet", "render_moon", "present">>

\* C6 (amended): every presented frame drew the planet once and then, exactly when
\* the selector is RockyPlanet, the moon once; the planet draw gets the selector,
\* the moon draw gets the Moon variant and Uniforms equal to the planet's of that
\* frame in view, projection, viewport and time, with another model matrix.
C6_PlanetThenMoon ==
    /\ Presented =>
          IF current_shader = "RockyPlanet"
          THEN /\ log = <<"clear", "render_planet", "render_moon", "present">>
               /\ SameButModel(moon_uniforms, uniforms)
          ELSE /\ log = <<"clear", "render_planet", "present">>
               /\ moon_uniforms = None
    /\ (pc = "planet" /\ render_shader # NoShader) => render_shader = current_shader
    /\ pc = "moon" => render_shader = "Moon" /\ SameButModel(moon_uniforms, uniforms)
    /\ uniforms # None => uniforms.time = time

\* C6 witness: a frame with the moon has been presented
C6_Witness ==
    /\ Presented /\ current_shader = "RockyPlanet" /\ frames = 2
    /\ moon_uniforms # None /\ moon_uniforms.time = <<0, 2>>

C7_TimeStep == time' # time => TimeLess(time, time')
\* C7 (as claimed): whenever the frame counter changes it grows.
C7_TimeIncreases == [][C7_TimeStep]_vars

C8_PresentedOnce ==
    /\ Count("present") <= 1
    /\ "present" \in LogSet => Presented /\ pc \in {"top", "done"}
    /\ (pc = "top" /\ frames > 0) => Presented
    /\ (pc = "done" /\ frames > 0) => Presented
C8_QuietStep ==
    /\ (Presented \/ log = <<>>) =>
          (framebuffer' = framebuffer \/ (log = <<>> /\ log' = <<"clear">>))
    /\ pc' = "done" => pc = "top" /\ framebuffer' = framebuffer /\ log' = log
    /\ pc # "done"
\* C8: a rendered frame is presented once, after all of its draws; nothing is
\* written to the framebuffer from the presentation to the next clear(); leaving
\* the loop at its top clears, draws and presents nothing, and nothing follows.
C8_PresentAfterDraws == [](C8_PresentedOnce) /\ [][C8_QuietStep]_vars

\* C8 witness: the loop was left after a presented frame that drew the moon
C8_Witness ==
    pc = "done" /\ Presented /\ "render_moon" \in LogSet /\ frames = 2

HighestKey(keys) == CHOOSE k \in keys : \A j \in keys : j <= k
C11_AtStartup == current_shader = "RockyPlanet"
C11_NeverMoon == current_shader \in {KeyVariant[k] : k \in NumberKeys}
C11_SelectorStep ==
    /\ current_shader' # current_shader => pc = "top" /\ pc' \in {"clear", "panicked"}
    /\ (pc = "top" /\ pc' \in {"clear", "panicked"}) =>
          IF keys_down' = {}
          THEN current_shader' = current_shader
          ELSE current_shader' = KeyVariant[HighestKey(keys_down')]
\* C11: the selector is RockyPlanet at startup and never Moon; it changes only in
\* the key polling at the top of a frame, where it keeps its value when no number
\* key is down and otherwise takes the variant of the highest-numbered key down.
C11_SelectorByKeys == C11_AtStartup /\ [](C11_NeverMoon) /\ [][C11_SelectorStep]_vars

\* C11 witness: keys 2 and 6 were found down together in the second frame and the
\* selector became AlienPlanet
C11_Witness ==
    /\ pc = "clear" /\ frames = 2
    /\ keys_down = {2, 6}
    /\ current_shader = "AlienPlanet"

====
